---- MODULE Spec2Model ----
(***************************************************************************)
(* EliteFarmers/Tools: the FarmingTool fortune aggregator                  *)
(* (classes/farmingtool.ts) and the yield model (util/ratecalc.ts).        *)
(*                                                                         *)
(* JavaScript numbers are modelled as exact rationals: a value is an       *)
(* integer numerator over an explicit positive denominator, and            *)
(* Math.round / Math.ceil are computed exactly on that pair.               *)
(* An optional value is <<>> (undefined) or <<v>>; an optional string is   *)
(* the string itself or Undef.                                             *)
(***************************************************************************)
EXTENDS Integers, Sequences, FiniteSets, TLC

VARIABLES self, last, call

vars == <<self, last, call>>

Undef == "undefined"
None == <<>>
Some(x) == <<x>>

(***************************************************************************)
(* Bounds of the model                                                     *)
(***************************************************************************)
MaxLevel == 1
MaxMilestone == 1
MaxBlocks == 6
MaxFortuneSteps == 8
MaxCollection == 3

(***************************************************************************)
(* Static tables                                                           *)
(***************************************************************************)
Rarities == <<"Common", "Uncommon", "Rare", "Epic", "Legendary", "Mythic">>

RaritySet == {Rarities[i] : i \in 1..Len(Rarities)}

RarityIndex(r) == CHOOSE i \in 1..Len(Rarities) : Rarities[i] = r

\* constants/tools.ts (FARMING_TOOLS): crop, category, flat fortune, per-rarity fortune
FARMING_TOOLS ==
  [id \in {"THEORETICAL_HOE_WHEAT_1", "COCO_CHOPPER"} |->
     IF id = "THEORETICAL_HOE_WHEAT_1"
     THEN [crop |-> "WHEAT", type |-> "MathematicalHoe", baseStats |-> 10,
           stats |-> [r \in {"Rare", "Epic"} |-> IF r = "Rare" THEN 4 ELSE 6]]
     ELSE [crop |-> "INK_SACK:3", type |-> "Other", baseStats |-> 20,
           stats |-> <<>>]]

\* constants/reforges.ts (REFORGES): display name and per-rarity fortune row
REFORGES ==
  [id \in {"blessed", "bountiful"} |->
     IF id = "blessed"
     THEN [name |-> "Blessed",
           tiers |-> [r \in RaritySet |->
                        CASE r = "Common" -> 5 [] r = "Uncommon" -> 7
                          [] r = "Rare" -> 9 [] r = "Epic" -> 13
                          [] r = "Legendary" -> 16 [] OTHER -> 20]]
     ELSE [name |-> "Bountiful",
           tiers |-> [r \in RaritySet |->
                        CASE r = "Common" -> 1 [] r = "Uncommon" -> 2
                          [] r = "Rare" -> 3 [] r = "Epic" -> 5
                          [] r = "Legendary" -> 7 [] OTHER -> 10]]]

\* constants/enchants.ts (TURBO_ENCHANTS): turbo enchantment -> crop
TURBO_ENCHANTS ==
  [e \in {"turbo_wheat", "turbo_wheat_ii", "turbo_coco"} |->
     IF e = "turbo_coco" THEN "INK_SACK:3" ELSE "WHEAT"]

\* constants/enchants.ts (TURBO_ENCHANT_FORTUNE)
TURBO_ENCHANT_FORTUNE == 5

\* constants/enchants.ts (FARMING_ENCHANTS): name, flat per-level fortune,
\* milestone-multiplied per-level fortune
FARMING_ENCHANTS ==
  [e \in {"harvesting", "dedication"} |->
     IF e = "harvesting"
     THEN [name |-> "Harvesting",
           levels |-> [l \in 1..6 |-> 12 * l],
           multipliedLevels |-> <<>>]
     ELSE [name |-> "Dedication",
           levels |-> [l \in 1..4 |-> l],
           multipliedLevels |-> [l \in 1..4 |-> l]]]

\* util/itemstats.ts (PreviousRarity): one tier below, the lowest tier stays
PreviousRarity(r) ==
  IF r \notin RaritySet THEN Undef
  ELSE IF RarityIndex(r) = 1 THEN r ELSE Rarities[RarityIndex(r) - 1]

\* + applied to an attribute string
ToNumber(s) ==
  CASE s = "-1" -> -1 [] s = "0" -> 0 [] s = "1" -> 1 [] s = "2" -> 2
    [] s = "3" -> 3 [] s = "7" -> 7 [] OTHER -> 0

(***************************************************************************)
(* Items and player options                                                *)
(***************************************************************************)
AbilityLine(n) == [kind |-> "ability", n |-> n, rarity |-> Undef]
RarityLine(r) == [kind |-> "rarity", n |-> 0, rarity |-> r]

RECURSIVE LastRarity(_, _)
LastRarity(lore, i) ==
  IF i = 0 THEN "Common"
  ELSE IF lore[i].kind = "rarity" THEN lore[i].rarity
  ELSE LastRarity(lore, i - 1)

\* util/itemstats.ts (GetRarityFromLore): the rarity named by the last lore line
\* that names one
GetRarityFromLore(lore) == LastRarity(lore, Len(lore))

\* util/lore.ts (ExtractNumberFromLine) with the ability pattern
ExtractNumberFromLine(line) ==
  IF line.kind = "ability" THEN Some(line.n) ELSE None

NoAttributes ==
  [modifier |-> Undef, farming_for_dummies_count |-> Undef,
   rarity_upgrades |-> Undef, mined_crops |-> Undef,
   farmed_cultivating |-> Undef]

NoItem ==
  [skyblockId |-> Undef, lore |-> None, enchantments |-> <<>>,
   attributes |-> NoAttributes]

Lores ==
  { None,
    Some(<<AbilityLine(2), AbilityLine(3), RarityLine("Rare")>>),
    Some(<<RarityLine("Epic")>>) }

Levels == (-1)..MaxLevel

\* an enchantment map in insertion order: a sequence of <<name, level>>
EnchantMaps ==
  { <<>> }
  \cup { << <<n, l>> >> :
           n \in {"turbo_wheat", "harvesting", "dedication", "sharpness"},
           l \in Levels }
  \cup { << <<"turbo_wheat", 1>>, <<"turbo_wheat_ii", l>> >> : l \in Levels }
  \cup { << <<"harvesting", l>>, <<"dedication", l>> >> : l \in Levels }

AttributeSets ==
  { NoAttributes,
    [NoAttributes EXCEPT !.modifier = "blessed", !.rarity_upgrades = "1"],
    [NoAttributes EXCEPT !.modifier = "bountiful",
                         !.farming_for_dummies_count = "2",
                         !.mined_crops = "7"],
    [NoAttributes EXCEPT !.modifier = "warped",
                         !.farming_for_dummies_count = "-1",
                         !.farmed_cultivating = "3"] }

ToolIds == DOMAIN FARMING_TOOLS

PlainLore == Some(<<RarityLine("Rare")>>)

Items ==
  { [skyblockId |-> "THEORETICAL_HOE_WHEAT_1", lore |-> PlainLore,
     enchantments |-> e, attributes |-> NoAttributes] : e \in EnchantMaps }
  \cup
  { [skyblockId |-> "THEORETICAL_HOE_WHEAT_1", lore |-> l,
     enchantments |-> <<>>, attributes |-> a] :
      l \in Lores, a \in AttributeSets }
  \cup
  { [skyblockId |-> "COCO_CHOPPER", lore |-> Some(<<RarityLine("Epic")>>),
     enchantments |-> e, attributes |-> NoAttributes] :
      e \in { <<>>, << <<"turbo_wheat", 1>> >>, << <<"turbo_coco", 1>> >> } }
  \cup
  { [NoItem EXCEPT !.skyblockId = "DIAMOND_HOE"] }

ToolCrops == {FARMING_TOOLS[id].crop : id \in ToolIds}

\* PlayerOptions: milestones is a crop -> count mapping, empty when absent
Options ==
  { [milestones |-> <<>>] }
  \cup { [milestones |-> [c \in ToolCrops |-> m]] :
           m \in {-1} \cup 1..MaxMilestone }

ReforgeIds == {"", "blessed", "bountiful"}

(***************************************************************************)
(* FarmingTool                                                             *)
(***************************************************************************)
\* the fields of an instance before the constructor body has run
Blank ==
  [built |-> FALSE, item |-> NoItem, options |-> [milestones |-> <<>>],
   tool |-> Undef, crop |-> Undef, rarity |-> Undef, counter |-> None,
   cultivating |-> 0, reforge |-> Undef, reforgeStats |-> None,
   farmingForDummies |-> 0, recombobulated |-> FALSE, fortune |-> 0,
   fortuneBreakdown |-> <<>>]

\* FARMING_TOOLS[item.skyblockId]
ToolLookup(item) ==
  IF item.skyblockId \in DOMAIN FARMING_TOOLS
  THEN Some(FARMING_TOOLS[item.skyblockId]) ELSE None

IsValidFarmingTool_AnyId(item) == item.skyblockId # Undef

IsValidFarmingTool(item) == ToolLookup(item) # None

\* the guard of rebuildTool's throw: !tool
UnknownTool(item) == ToolLookup(item) = None

Put(f, k, v) == [x \in DOMAIN f \cup {k} |-> IF x = k THEN v ELSE f[x]]

\* fortuneBreakdown[label] = v; sum += v
Add(acc, label, v) == [sum |-> acc.sum + v, bd |-> Put(acc.bd, label, v)]

AddIfPositive(acc, label, v) == IF v > 0 THEN Add(acc, label, v) ELSE acc

RECURSIVE SumAbility(_, _)
SumAbility(lore, i) ==
  IF i > Len(lore) THEN 0
  ELSE (IF ExtractNumberFromLine(lore[i]) = None THEN 0
        ELSE ExtractNumberFromLine(lore[i])[1]) + SumAbility(lore, i + 1)

getFarmingAbilityFortune(s) ==
  IF s.item.lore = None THEN 0 ELSE SumAbility(s.item.lore[1], 1)

TurboGain(level) == TURBO_ENCHANT_FORTUNE * level

\* one iteration of the enchantment loop
EnchantStep(acc, enchant, level, crop) ==
  IF level = 0 THEN acc
  ELSE IF enchant \in DOMAIN TURBO_ENCHANTS
  THEN IF TURBO_ENCHANTS[enchant] # crop THEN acc
       ELSE Add(acc, "Turbo", TurboGain(level))
  ELSE IF enchant \notin DOMAIN FARMING_ENCHANTS THEN acc
  ELSE LET enchantment == FARMING_ENCHANTS[enchant]
           fortune == IF level \in DOMAIN enchantment.levels
                      THEN enchantment.levels[level] ELSE 0
       IN  AddIfPositive(acc, enchantment.name, fortune)

RECURSIVE EnchantLoop(_, _, _, _)
EnchantLoop(acc, ench, i, crop) ==
  IF i > Len(ench) THEN acc
  ELSE EnchantLoop(EnchantStep(acc, ench[i][1], ench[i][2], crop),
                   ench, i + 1, crop)

EnchantLevel(ench, name) ==
  IF \E i \in 1..Len(ench) : ench[i][1] = name
  THEN ench[CHOOSE i \in 1..Len(ench) : ench[i][1] = name][2]
  ELSE 0

\* this.options?.milestones?.[this.crop] ?? 0
MilestoneOf(options, crop) ==
  IF crop \in DOMAIN options.milestones THEN options.milestones[crop] ELSE 0

\* the milestone-scaled dedication bonus
MilestoneStep(acc, s) ==
  LET milestone == MilestoneOf(s.options, s.crop)
      ench == s.item.enchantments
      level == EnchantLevel(ench, "dedication")
      enchantment == FARMING_ENCHANTS["dedication"]
      multiplier == IF level \in DOMAIN enchantment.multipliedLevels
                    THEN enchantment.multipliedLevels[level] ELSE 0
  IN  IF milestone # 0 /\ (\E i \in 1..Len(ench) : ench[i][1] = "dedication")
         /\ level # 0 /\ multiplier > 0
      THEN Add(acc, enchantment.name, multiplier * milestone)
      ELSE acc

\* sumFortune: [sum, bd] for the instance fields s
SumFortune(s) ==
  LET tool == FARMING_TOOLS[s.tool]
      a0 == [sum |-> 0, bd |-> <<>>]
      a1 == AddIfPositive(a0, "Tool Bonus", tool.baseStats)
      baseRarity == IF s.recombobulated THEN PreviousRarity(s.rarity)
                    ELSE s.rarity
      rarityStats == IF baseRarity \in DOMAIN tool.stats
                     THEN tool.stats[baseRarity] ELSE 0
      a2 == AddIfPositive(a1, "Tool Stats", rarityStats)
      reforge == IF s.reforgeStats = None THEN 0 ELSE s.reforgeStats[1]
      a3 == AddIfPositive(a2, IF s.reforge = Undef THEN "Reforge"
                              ELSE REFORGES[s.reforge].name, reforge)
      a4 == AddIfPositive(a3, "Farming for Dummies", s.farmingForDummies)
      a5 == IF tool.type = "MathematicalHoe"
            THEN AddIfPositive(a4, "Tool Ability", getFarmingAbilityFortune(s))
            ELSE a4
      a6 == EnchantLoop(a5, s.item.enchantments, 1, s.crop)
  IN  MilestoneStep(a6, s)

\* setReforge: the fields it assigns
SetReforgeOn(s, reforgeId) ==
  LET found == reforgeId \in DOMAIN REFORGES
  IN  [s EXCEPT
         !.reforge = IF found THEN reforgeId ELSE Undef,
         !.reforgeStats =
            IF found /\ s.rarity \in DOMAIN REFORGES[reforgeId].tiers
            THEN Some(REFORGES[reforgeId].tiers[s.rarity]) ELSE None]

AttrNumber(a) == IF a = Undef THEN 0 ELSE ToNumber(a)

\* getCounter / getCultivating: the number, undefined when 0
getCounter(item) ==
  IF AttrNumber(item.attributes.mined_crops) # 0
  THEN Some(AttrNumber(item.attributes.mined_crops)) ELSE None

getCultivating(item) == AttrNumber(item.attributes.farmed_cultivating)

RebuildThrow_ResetsFortune(s, item, options) ==
  [s EXCEPT !.options = options, !.item = item, !.fortune = 0,
            !.fortuneBreakdown = <<>>]

\* rebuildTool up to and including the throw
RebuildThrow(s, item, options) == [s EXCEPT !.options = options, !.item = item]

\* rebuildTool for an item whose tool is known
RebuildResult(s, item, options) ==
  LET s1 == [s EXCEPT !.options = options, !.item = item,
                      !.tool = item.skyblockId,
                      !.crop = FARMING_TOOLS[item.skyblockId].crop]
      s2 == IF item.lore # None
            THEN [s1 EXCEPT !.rarity = GetRarityFromLore(item.lore[1])]
            ELSE s1
      s3 == [s2 EXCEPT !.counter = getCounter(item),
                       !.cultivating = getCultivating(item)]
      s4 == SetReforgeOn(s3, IF item.attributes.modifier = Undef THEN ""
                             ELSE item.attributes.modifier)
      s5 == [s4 EXCEPT
               !.farmingForDummies =
                  AttrNumber(item.attributes.farming_for_dummies_count),
               !.recombobulated = (item.attributes.rarity_upgrades = "1")]
      r == SumFortune(s5)
  IN  [s5 EXCEPT !.fortune = r.sum, !.fortuneBreakdown = r.bd]

(***************************************************************************)
(* Yield model: exact rationals                                            *)
(***************************************************************************)
Q(n, d) == [n |-> n, d |-> d]

QAdd(a, b) == Q(a.n * b.d + b.n * a.d, a.d * b.d)

QSub(a, b) == Q(a.n * b.d - b.n * a.d, a.d * b.d)

QMulInt(a, k) == Q(a.n * k, a.d)

QInt(k) == Q(k, 1)

\* Math.round: the nearest integer, a tie going up
Round(q) == (2 * q.n + q.d) \div (2 * q.d)

\* Math.ceil
Ceil(q) == -((-q.n) \div q.d)

\* constants/crops.ts (Crop)
Cactus == "CACTUS"
Carrot == "CARROT_ITEM"
CocoaBeans == "INK_SACK:3"
Melon == "MELON"
Mushroom == "MUSHROOM_COLLECTION"
NetherWart == "NETHER_STALK"
Potato == "POTATO_ITEM"
Pumpkin == "PUMPKIN"
SugarCane == "SUGAR_CANE"
Wheat == "WHEAT"
Seeds == "WHEAT_SEEDS"

\* util/ratecalc.ts (crops)
crops ==
  <<Cactus, Carrot, CocoaBeans, Melon, Mushroom, NetherWart, Potato, Pumpkin,
    SugarCane, Wheat, Seeds>>

Crops == {crops[i] : i \in 1..Len(crops)}

\* constants/crops.ts (CROP_INFO)
CROP_INFO ==
  [c \in Crops |->
     CASE c = Cactus -> [name |-> "Cactus", npc |-> 3, drops |-> Q(2, 1)]
       [] c = Carrot -> [name |-> "Carrot", npc |-> 3, drops |-> Q(3, 1)]
       [] c = CocoaBeans ->
            [name |-> "Cocoa Beans", npc |-> 3, drops |-> Q(3, 1)]
       [] c = Melon -> [name |-> "Melon", npc |-> 2, drops |-> Q(5, 1)]
       [] c = Mushroom -> [name |-> "Mushroom", npc |-> 10, drops |-> Q(1, 1)]
       [] c = NetherWart ->
            [name |-> "Nether Wart", npc |-> 4, drops |-> Q(5, 2)]
       [] c = Potato -> [name |-> "Potato", npc |-> 3, drops |-> Q(3, 1)]
       [] c = Pumpkin -> [name |-> "Pumpkin", npc |-> 10, drops |-> Q(1, 1)]
       [] c = SugarCane ->
            [name |-> "Sugar Cane", npc |-> 2, drops |-> Q(4, 1)]
       [] c = Wheat -> [name |-> "Wheat", npc |-> 6, drops |-> Q(1, 1)]
       [] OTHER -> [name |-> "Seeds", npc |-> 3, drops |-> Q(3, 2)]]

\* GetCropInfo(crop) has the crop's fields: CROP_INFO[crop] ?? {}
HasCropInfo(crop) == crop \in DOMAIN CROP_INFO

\* the crop table's replenishment flag
Replenish(crop) == crop \in {Carrot, CocoaBeans, NetherWart, Potato, Seeds}

\* breaks = 1: the default of the destructuring of GetCropInfo(crop)
Breaks(crop) == 1

\* constants/crops.ts (MAX_CROP_FORTUNE)
MAX_CROP_FORTUNE ==
  [c \in Crops |-> IF c \in {Wheat, Seeds} THEN 175 ELSE 150]

\* crops/pumpkin.ts (CalculatePumpkinPerkBonus): average dicer drops
CalculatePumpkinPerkBonus(blocksBroken) == Q(blocksBroken * 3, 8)

\* crops/melon.ts (CalculateMelonPerkBonus): average dicer drops
CalculateMelonPerkBonus(blocksBroken) == Q(blocksBroken * 5, 8)

\* crops/special.ts (CalculateAverageSpecialCrops): type, amount, npc
CalculateAverageSpecialCrops(blocksBroken, crop, armorPieces) ==
  LET type == IF crop \in {Wheat, Seeds, Carrot, Potato} THEN "Cropie"
              ELSE IF crop \in {Pumpkin, Melon, CocoaBeans} THEN "Squash"
              ELSE "Fermento"
      price == IF type = "Cropie" THEN 25 ELSE IF type = "Squash" THEN 75
               ELSE 250
      amount == Q(blocksBroken * armorPieces, 40)
  IN  [type |-> type, amount |-> amount, npc |-> QMulInt(amount, price)]

\* fortune added when the blessed reforge is assumed instead of bountiful:
\* BEST_FARMING_TOOLS[crop]?.maxRarity ?? Rarity.Mythic, then the two reforge rows
BlessedDelta(crop) ==
  REFORGES["blessed"].tiers["Mythic"] - REFORGES["bountiful"].tiers["Mythic"]

\* farmingFortune ?? MAX_CROP_FORTUNE[crop] ?? 0
ResolveFortune(farmingFortune, crop) ==
  IF farmingFortune # None THEN farmingFortune[1]
  ELSE IF crop \in DOMAIN MAX_CROP_FORTUNE THEN MAX_CROP_FORTUNE[crop]
  ELSE 0

\* blocksBroken * drops * ((fortune + 100) * 0.01)
BaseDrops(blocksBroken, crop, fortune) ==
  Q(blocksBroken * CROP_INFO[crop].drops.n * (fortune + 100),
    CROP_INFO[crop].drops.d * 100)

ExpectedSwitch_NoReplenish(crop, baseDrops, blocksBroken) ==
  CASE crop \in {Cactus, Wheat, Mushroom, SugarCane, Carrot, CocoaBeans,
                 NetherWart, Potato, Seeds} -> Round(baseDrops)
    [] crop = Pumpkin ->
         Round(QAdd(baseDrops, CalculatePumpkinPerkBonus(blocksBroken)))
    [] crop = Melon ->
         Round(QAdd(baseDrops, CalculateMelonPerkBonus(blocksBroken)))
    [] OTHER -> 0

\* the switch of CalculateExpectedDrops
ExpectedSwitch(crop, baseDrops, blocksBroken) ==
  CASE crop \in {Cactus, Wheat, Mushroom, SugarCane} -> Round(baseDrops)
    [] crop \in {Carrot, CocoaBeans, NetherWart, Potato, Seeds} ->
         Round(QSub(baseDrops, QInt(blocksBroken)))
    [] crop = Pumpkin ->
         Round(QAdd(baseDrops, CalculatePumpkinPerkBonus(blocksBroken)))
    [] crop = Melon ->
         Round(QAdd(baseDrops, CalculateMelonPerkBonus(blocksBroken)))
    [] OTHER -> 0

CalculateExpectedDrops(crop, blocksBroken, farmingFortune) ==
  LET fortune == ResolveFortune(farmingFortune, crop)
  IN  IF fortune <= 0 \/ blocksBroken < 0 THEN 0
      ELSE IF ~HasCropInfo(crop) THEN 0
      ELSE ExpectedSwitch(crop, BaseDrops(blocksBroken, crop, fortune),
                          blocksBroken)

CalculateAverageDrops(blocksBroken, farmingFortune) ==
  [c \in Crops |-> CalculateExpectedDrops(c, blocksBroken, farmingFortune)]

RECURSIVE SumValues(_)
\* Object.values(f).reduce((a, b) => a + b, 0)
SumValues(f) ==
  IF DOMAIN f = {} THEN 0
  ELSE LET k == CHOOSE x \in DOMAIN f : TRUE
       IN  f[k] + SumValues([x \in DOMAIN f \ {k} |-> f[x]])

Remove(f, k) == [x \in DOMAIN f \ {k} |-> f[x]]

Get(f, k) == IF k \in DOMAIN f THEN f[k] ELSE 0

EmptyDrops ==
  [collection |-> 0, npcCoins |-> 0, fortune |-> 0, coinSources |-> <<>>,
   otherCollection |-> <<>>]

\* the switch of CalculateDetailedDrops: coinSources, otherCollection, collection
DetailedSwitch(r, crop, baseDrops, blocksBroken) ==
  LET npc == CROP_INFO[crop].npc
      breaks == Breaks(crop)
  IN  IF crop \in {Pumpkin, Melon}
      THEN LET extraDrops ==
                 Round(IF crop = Pumpkin
                       THEN CalculatePumpkinPerkBonus(blocksBroken)
                       ELSE CalculateMelonPerkBonus(blocksBroken))
               c1 == Put(r.coinSources, "Dicer RNG", extraDrops * npc)
               c2 == Put(c1, "Collection", Round(QMulInt(baseDrops, npc)))
           IN  [r EXCEPT
                  !.coinSources = c2,
                  !.otherCollection =
                     Put(r.otherCollection,
                         IF crop = Pumpkin THEN "RNG Pumpkin" ELSE "RNG Melon",
                         extraDrops),
                  !.collection = Round(QAdd(baseDrops, QInt(extraDrops)))]
      ELSE IF Replenish(crop)
      THEN [r EXCEPT
              !.coinSources =
                 Put(r.coinSources, "Collection",
                     Round(QMulInt(QSub(baseDrops, QInt(blocksBroken * breaks)),
                                   npc))),
              !.otherCollection =
                 Put(r.otherCollection, "Replenish", -(blocksBroken * breaks)),
              !.collection = Round(baseDrops)]
      ELSE [r EXCEPT
              !.coinSources =
                 Put(r.coinSources, "Collection",
                     Round(QMulInt(baseDrops, npc))),
              !.collection = Round(baseDrops)]

\* result.npcCoins = the sum of coinSources
DetailedSum(r) == [r EXCEPT !.npcCoins = SumValues(r.coinSources)]

CalculateDetailedDrops(crop, blocksBroken, farmingFortune, bountiful, mooshroom) ==
  LET resolved == ResolveFortune(farmingFortune, crop)
      fortune == IF ~bountiful /\ farmingFortune = None
                 THEN resolved + BlessedDelta(crop) ELSE resolved
      r0 == [EmptyDrops EXCEPT !.fortune = fortune]
      baseDrops == BaseDrops(blocksBroken, crop, fortune)
      r1 == [r0 EXCEPT
               !.otherCollection = Put(r0.otherCollection, "Normal",
                                       Round(baseDrops))]
      r2 == IF bountiful
            THEN [r1 EXCEPT
                    !.coinSources =
                       Put(r1.coinSources, "Bountiful",
                           Round(Q(baseDrops.n, baseDrops.d * 5)))]
            ELSE r1
      mushroomDrops == blocksBroken * Breaks(crop)
      r3 == IF mooshroom
            THEN [r2 EXCEPT
                    !.coinSources =
                       Put(r2.coinSources, "Mooshroom",
                           mushroomDrops * CROP_INFO[Mushroom].npc),
                    !.otherCollection =
                       Put(r2.otherCollection, "Mushroom", mushroomDrops)]
            ELSE r2
      specialCrops ==
        CalculateAverageSpecialCrops(blocksBroken, crop,
                                     IF crop = Cactus THEN 3 ELSE 4)
      r4 == [r3 EXCEPT
               !.otherCollection = Put(r3.otherCollection, specialCrops.type,
                                       Round(specialCrops.amount)),
               !.coinSources = Put(r3.coinSources, specialCrops.type,
                                   Round(specialCrops.npc))]
  IN  IF resolved <= 0 \/ blocksBroken < 0 THEN EmptyDrops
      ELSE IF ~HasCropInfo(crop) THEN r0
      ELSE DetailedSum(DetailedSwitch(r4, crop, baseDrops, blocksBroken))

FoldSeeds_StaleCoins(wheat, seeds, blocksBroken, bountiful) ==
  LET seedCollection == seeds.collection - blocksBroken
      c1 == Put(wheat.coinSources, "Seeds",
                seedCollection * CROP_INFO[Seeds].npc)
      c2 == IF bountiful
            THEN Put(c1, "Bountiful (Seeds)", Get(seeds.coinSources, "Bountiful"))
            ELSE c1
  IN  [wheat EXCEPT
         !.otherCollection = Put(wheat.otherCollection, "Seeds",
                                 seedCollection),
         !.coinSources = c2]

\* CalculateDetailedAverageDrops: combine seeds into wheat
FoldSeeds(wheat, seeds, blocksBroken, bountiful) ==
  LET seedCollection == seeds.collection - blocksBroken
      c1 == Put(wheat.coinSources, "Seeds",
                seedCollection * CROP_INFO[Seeds].npc)
      c2 == IF bountiful
            THEN Put(c1, "Bountiful (Seeds)", Get(seeds.coinSources, "Bountiful"))
            ELSE c1
  IN  [wheat EXCEPT
         !.otherCollection = Put(wheat.otherCollection, "Seeds",
                                 seedCollection),
         !.coinSources = c2,
         !.npcCoins = SumValues(c2)]

\* CalculateDetailedAverageDrops: count mooshroom mushrooms as mushroom collection
FoldMooshroom(mushroom) ==
  LET mooshroom == Get(mushroom.otherCollection, "Mushroom")
  IN  [mushroom EXCEPT
         !.collection = mushroom.collection + mooshroom,
         !.otherCollection =
            Remove(Put(mushroom.otherCollection, "Mooshroom", mooshroom),
                   "Mushroom")]

CalculateDetailedAverageDrops(blocksBroken, farmingFortune, bountiful, mooshroom) ==
  LET result == [c \in Crops |->
                   CalculateDetailedDrops(c, blocksBroken, farmingFortune,
                                          bountiful, mooshroom)]
  IN  [c \in Crops |->
         IF c = Wheat
         THEN FoldSeeds(result[Wheat], result[Seeds], blocksBroken, bountiful)
         ELSE IF c = Mushroom /\ mooshroom THEN FoldMooshroom(result[Mushroom])
         ELSE result[c]]

\* a JavaScript number that may not be finite
Finite(v) == [kind |-> "finite", value |-> v]
NaN == [kind |-> "NaN", value |-> 0]
Infinity == [kind |-> "Infinity", value |-> 0]
NegInfinity == [kind |-> "-Infinity", value |-> 0]

\* Math.ceil((collection * 100) / (drops * blocksBroken) - 100)
CeilQuotient(collection, divisor) ==
  IF divisor.n = 0
  THEN IF collection.n = 0 THEN NaN
       ELSE IF collection.n > 0 THEN Infinity ELSE NegInfinity
  ELSE LET n == collection.n * 100 * divisor.d
           d == collection.d * divisor.n
           q == IF d > 0 THEN Q(n, d) ELSE Q(-n, -d)
       IN  Finite(Ceil(QSub(q, QInt(100))))

GetFortuneRequiredForCollection(blocksBroken, crop, collection, useDicers, useMooshroom) ==
  LET c0 == QInt(collection)
      c1 == IF useDicers /\ crop = Pumpkin
            THEN QSub(c0, CalculatePumpkinPerkBonus(blocksBroken))
            ELSE IF useDicers /\ crop = Melon
            THEN QSub(c0, CalculateMelonPerkBonus(blocksBroken))
            ELSE c0
      c2 == IF useMooshroom /\ crop = Mushroom
            THEN QSub(c1, QInt(blocksBroken)) ELSE c1
  IN  IF ~HasCropInfo(crop) THEN NaN
      ELSE CeilQuotient(c2, QMulInt(CROP_INFO[crop].drops, blocksBroken))

GetNPCProfit(crop, amount) ==
  IF ~HasCropInfo(crop) THEN 0 ELSE CROP_INFO[crop].npc * amount

(***************************************************************************)
(* Calls of the yield model                                                *)
(***************************************************************************)
CropInputs == Crops \cup {"UNKNOWN_CROP"}

BlockInputs == ((-1)..MaxBlocks) \cup {100}

FortuneInputs == {None} \cup {Some(25 * k) : k \in (-1)..MaxFortuneSteps}

CollectionInputs == ((-1)..MaxCollection) \cup {100}

Args(crop, blocksBroken, farmingFortune, bountiful, mooshroom, collection) ==
  [crop |-> crop, blocksBroken |-> blocksBroken,
   farmingFortune |-> farmingFortune, bountiful |-> bountiful,
   mooshroom |-> mooshroom, collection |-> collection]

\* the calls a caller can make, each with its arguments
Calls ==
  { [fn |-> "CalculateExpectedDrops", done |-> FALSE,
     args |-> Args(c, b, f, FALSE, FALSE, 0)] :
      c \in CropInputs, b \in BlockInputs, f \in FortuneInputs }
  \cup
  { [fn |-> "CalculateAverageDrops", done |-> FALSE,
     args |-> Args(Undef, b, f, FALSE, FALSE, 0)] :
      b \in BlockInputs, f \in FortuneInputs }
  \cup
  { [fn |-> "CalculateDetailedDrops", done |-> FALSE,
     args |-> Args(c, b, f, bo, mo, 0)] :
      c \in CropInputs, b \in BlockInputs, f \in FortuneInputs,
      bo \in BOOLEAN, mo \in BOOLEAN }
  \cup
  { [fn |-> "CalculateDetailedAverageDrops", done |-> FALSE,
     args |-> Args(Undef, b, f, bo, mo, 0)] :
      b \in BlockInputs, f \in FortuneInputs, bo \in BOOLEAN, mo \in BOOLEAN }
  \cup
  { [fn |-> "GetFortuneRequiredForCollection", done |-> FALSE,
     args |-> Args(c, b, None, d, mo, n)] :
      c \in CropInputs, b \in BlockInputs, n \in CollectionInputs,
      d \in BOOLEAN, mo \in BOOLEAN }
  \cup
  { [fn |-> "GetNPCProfit", done |-> FALSE,
     args |-> Args(c, 0, None, FALSE, FALSE, n)] :
      c \in CropInputs, n \in CollectionInputs }

NoCall == [fn |-> "none", done |-> FALSE, args |-> Args(Undef, 0, None, FALSE, FALSE, 0)]

\* the call made last; clean: no call on the current instance has thrown
LastCall(op, item, options, reforgeId, threw, clean) ==
  [op |-> op, item |-> item, options |-> options, reforgeId |-> reforgeId,
   threw |-> threw, clean |-> clean]

Init ==
  /\ self = Blank
  /\ last = LastCall("none", NoItem, [milestones |-> <<>>], "", FALSE, TRUE)
  /\ call = NoCall

\* new FarmingTool(item, options)
Construct(item, options) ==
  /\ self' = IF UnknownTool(item) THEN self
             ELSE [RebuildResult(Blank, item, options) EXCEPT !.built = TRUE]
  /\ last' = LastCall("new", item, options, "", UnknownTool(item),
                      IF UnknownTool(item) THEN last.clean ELSE TRUE)
  /\ UNCHANGED call

\* tool.rebuildTool(item, options) on an existing instance
RebuildTool(item, options) ==
  /\ self.built
  /\ self' = IF UnknownTool(item) THEN RebuildThrow(self, item, options)
             ELSE RebuildResult(self, item, options)
  /\ last' = LastCall("rebuildTool", item, options, "", UnknownTool(item),
                      last.clean /\ ~UnknownTool(item))
  /\ UNCHANGED call

\* tool.setReforge(reforgeId) on an existing instance
SetReforge(reforgeId) ==
  /\ self.built
  /\ self' = SetReforgeOn(self, reforgeId)
  /\ last' = LastCall("setReforge", self.item, self.options, reforgeId, FALSE,
                      last.clean)
  /\ UNCHANGED call

Next ==
  \/ \E item \in Items, options \in Options : Construct(item, options)
  \/ \E item \in Items, options \in Options : RebuildTool(item, options)
  \/ \E reforgeId \in ReforgeIds : SetReforge(reforgeId)

Spec == Init /\ [][Next]_vars

Returned(result) ==
  [fn |-> call.fn, done |-> TRUE, args |-> call.args, result |-> result]

Ready(fn) == call.fn = fn /\ ~call.done

ApplyExpectedDrops ==
  /\ Ready("CalculateExpectedDrops")
  /\ call' = Returned(CalculateExpectedDrops(call.args.crop,
                        call.args.blocksBroken, call.args.farmingFortune))
  /\ UNCHANGED <<self, last>>

ApplyAverageDrops ==
  /\ Ready("CalculateAverageDrops")
  /\ call' = Returned(CalculateAverageDrops(call.args.blocksBroken,
                                            call.args.farmingFortune))
  /\ UNCHANGED <<self, last>>

ApplyDetailedDrops ==
  /\ Ready("CalculateDetailedDrops")
  /\ call' = Returned(CalculateDetailedDrops(call.args.crop,
                        call.args.blocksBroken, call.args.farmingFortune,
                        call.args.bountiful, call.args.mooshroom))
  /\ UNCHANGED <<self, last>>

ApplyDetailedAverageDrops ==
  /\ Ready("CalculateDetailedAverageDrops")
  /\ call' = Returned(CalculateDetailedAverageDrops(call.args.blocksBroken,
                        call.args.farmingFortune, call.args.bountiful,
                        call.args.mooshroom))
  /\ UNCHANGED <<self, last>>

ApplyFortuneRequired ==
  /\ Ready("GetFortuneRequiredForCollection")
  /\ call' = Returned(GetFortuneRequiredForCollection(call.args.blocksBroken,
                        call.args.crop, call.args.collection,
                        call.args.bountiful, call.args.mooshroom))
  /\ UNCHANGED <<self, last>>

ApplyNPCProfit ==
  /\ Ready("GetNPCProfit")
  /\ call' = Returned(GetNPCProfit(call.args.crop, call.args.collection))
  /\ UNCHANGED <<self, last>>

InitRates ==
  /\ self = Blank
  /\ last = LastCall("none", NoItem, [milestones |-> <<>>], "", FALSE, TRUE)
  /\ call \in Calls

NextRates ==
  \/ ApplyExpectedDrops
  \/ ApplyAverageDrops
  \/ ApplyDetailedDrops
  \/ ApplyDetailedAverageDrops
  \/ ApplyFortuneRequired
  \/ ApplyNPCProfit

SpecRates == InitRates /\ [][NextRates]_vars

(***************************************************************************)
(* Properties of FarmingTool                                               *)
(***************************************************************************)
Built == last.op \in {"new", "rebuildTool"} /\ ~last.threw

FreshTool(item, options) == RebuildResult(Blank, item, options)

\* C1: after the constructor or rebuildTool returns, fortune is the sum of the
\* values of fortuneBreakdown.
C1_SumLaw == Built => self.fortune = SumValues(self.fortuneBreakdown)

\* C2: after a successful rebuildTool(item, options) on an instance reached by
\* successful rebuildTool and setReforge calls only, rarity, reforge,
\* reforgeStats, fortune and fortuneBreakdown are those of a newly constructed
\* FarmingTool(item, options).
C2_RebuildIsFresh ==
  (last.op = "rebuildTool" /\ last.clean) =>
    LET f == FreshTool(last.item, last.options)
    IN  /\ self.rarity = f.rarity
        /\ self.reforge = f.reforge
        /\ self.reforgeStats = f.reforgeStats
        /\ self.fortune = f.fortune
        /\ self.fortuneBreakdown = f.fortuneBreakdown

\* C3: after setReforge(reforgeId), fortune and fortuneBreakdown are those of a
\* tool built from the same item and options with attributes.modifier =
\* reforgeId.
C3_SetReforgeRederives ==
  (last.op = "setReforge" /\ last.clean) =>
    LET f == FreshTool([self.item EXCEPT !.attributes.modifier = last.reforgeId],
                       self.options)
    IN  /\ self.fortune = f.fortune
        /\ self.fortuneBreakdown = f.fortuneBreakdown

\* C4: after the constructor or rebuildTool returns, every value of
\* fortuneBreakdown is > 0 and fortune is >= 0.
C4_NoNonPositiveSource ==
  Built => /\ self.fortune >= 0
           /\ \A k \in DOMAIN self.fortuneBreakdown :
                 self.fortuneBreakdown[k] > 0

C10_ThrowFrame ==
  [][(last'.op = "rebuildTool" /\ last'.threw) =>
       /\ self'.item = last'.item /\ self'.options = last'.options
       /\ self'.tool = self.tool /\ self'.crop = self.crop
       /\ self'.rarity = self.rarity /\ self'.reforge = self.reforge
       /\ self'.reforgeStats = self.reforgeStats
       /\ self'.farmingForDummies = self.farmingForDummies
       /\ self'.recombobulated = self.recombobulated
       /\ self'.fortune = self.fortune
       /\ self'.fortuneBreakdown = self.fortuneBreakdown]_vars

C10_Witness ==
  /\ last.op = "rebuildTool" /\ last.threw
  /\ self.item.skyblockId = "DIAMOND_HOE"
  /\ self.tool = "THEORETICAL_HOE_WHEAT_1"
  /\ self.fortune > 10 /\ DOMAIN self.fortuneBreakdown # {}
  /\ DOMAIN self.options.milestones # {}

(***************************************************************************)
(* Properties of the yield model                                           *)
(***************************************************************************)
Did(fn) == call.fn = fn /\ call.done

SumLaw(r) == r.npcCoins = SumValues(r.coinSources)

\* C6: npcCoins is the sum of the values of coinSources in every result of
\* CalculateDetailedDrops and in every crop entry of
\* CalculateDetailedAverageDrops, the early-return results included.
C6_CoinSumLaw ==
  /\ Did("CalculateDetailedDrops") => SumLaw(call.result)
  /\ Did("CalculateDetailedAverageDrops") =>
       \A c \in Crops : SumLaw(call.result[c])

C6_Witness ==
  /\ Did("CalculateDetailedAverageDrops")
  /\ call.args.bountiful /\ call.args.mooshroom
  /\ {"Seeds", "Bountiful (Seeds)", "Collection"}
       \subseteq DOMAIN call.result[Wheat].coinSources
  /\ call.result[Wheat].coinSources["Seeds"] > 0
  /\ call.result[Wheat].coinSources["Bountiful (Seeds)"] > 0
  /\ "Mooshroom" \in DOMAIN call.result[Mushroom].otherCollection
  /\ call.result[Mushroom].npcCoins > 0

\* r is q rounded to the nearest integer, a tie going up
IsRounded(r, q) == 2 * q.d * r - q.d <= 2 * q.n /\ 2 * q.n < 2 * q.d * r + q.d

C8_NoDivisionByZero ==
  (Did("GetFortuneRequiredForCollection")
     /\ (call.args.blocksBroken = 0 \/ ~HasCropInfo(call.args.crop))) =>
    call.result = Finite(0)

\* C9: for every crop, blocksBroken >= 0 and explicitly passed fortune > 0, the
\* collection of CalculateDetailedDrops equals CalculateExpectedDrops of the
\* same crop, blocksBroken and fortune.
C9_DetailedMatchesExpected ==
  (Did("CalculateDetailedDrops") /\ call.args.crop \in Crops
     /\ call.args.blocksBroken >= 0 /\ call.args.farmingFortune # None
     /\ ResolveFortune(call.args.farmingFortune, call.args.crop) > 0) =>
    call.result.collection =
      CalculateExpectedDrops(call.args.crop, call.args.blocksBroken,
                             call.args.farmingFortune)

====
